---- MODULE Spec2Model ----
(***************************************************************************)
(* The dawn-alarm widget (src/src/App.tsx): one React component holding    *)
(* the clock sample, the alarm record, the ringing flag, three audio refs  *)
(* and one localStorage item.                                              *)
(*                                                                         *)
(* The root is created outside App.tsx; with React 18's createRoot, React  *)
(* runs the component in tasks of the event loop, and each task is one     *)
(* step here:                                                              *)
(*   - a click or an input change: the handler, the render of the updates  *)
(*     the handler made, and the effects of that render (the save effect,  *)
(*     lines 29-31, and the check-alarm effect, lines 98-119), which React *)
(*     runs synchronously at the end of the commit of a discrete event;    *)
(*   - the interval callback (lines 35-37), which only queues the new      *)
(*     clock sample;                                                       *)
(*   - the render of the queued updates (step Render);                     *)
(*   - the effects of the first render or of such a render (step Effects). *)
(* An update made by an effect (lines 107, 108, 115) or by the interval    *)
(* callback is only queued: the state changes at the next Render, while    *)
(* startAlarmSound() acts at once.  The render of a click leaves the       *)
(* queued updates queued.  Whatever renders next runs the pending effects  *)
(* first, with the values of the render that scheduled them.               *)
(*                                                                         *)
(* Time is in milliseconds on the axis of Date.now(), counted from the     *)
(* local midnight of day 0; local time is that plus the offset of the time *)
(* zone, which changes once in a zone with daylight saving.  Strings are   *)
(* one-character strings; JavaScript values that can come out of           *)
(* JSON.parse are records [t, b, s] (type tag, boolean payload, string     *)
(* payload) so that values of different types can be compared.             *)
(***************************************************************************)
EXTENDS Integers, Sequences, FiniteSets, TLC

VARIABLES
    app,            \* "unloaded" | "mounted" | "crashed" (a render or an
                    \* effect threw) | "unmounted" (torn down by the host)
    audioAvailable, \* whether `new AudioContext()` succeeds in this browser
    zone,           \* the time zone of the browser: "fixed" | "fallBack" |
                    \* "springForward"
    pending,        \* effects of the last render not yet run: "none" |
                    \* "mount" (all three) | "render" (check-alarm)
    queued,         \* state updates queued and not yet rendered: time (the
                    \* sample of setCurrentTime, or Null), clear (line 107),
                    \* resnooze (the updater of line 129 was called after
                    \* the queued line 107 and nothing after it), ring
                    \* (setIsRinging(true): "none" | "match" | "snooze"),
                    \* stale (a queued setIsRinging(true) that a later
                    \* setIsRinging(false) overrides)
    timer,          \* the instant the next interval callback is timed from:
                    \* the setInterval call (line 35) or the last callback;
                    \* Null while no interval is set
    clock,          \* Date.now(): the wall clock, ms
    currentTime,    \* useState(new Date()), line 14: the last clock sample
    alarm,          \* useState<AlarmState>, lines 15-22, as last rendered
    isRinging,      \* useState(false), line 23, as last rendered
    audio,          \* the three refs of lines 24-26 and the live audio objects
    storage,        \* localStorage item STORAGE_KEY: the stored text
    ticks,          \* number of interval callbacks so far (bounded)
    lastOp,         \* history: the event of the last step
    fired,          \* history: what the check-alarm runs of the last step
                    \* did or, of a Render, what made it enter Ringing
    lastMatchFire   \* history: clock sample of the latest time-match firing

vars == <<app, audioAvailable, zone, pending, queued, timer, clock,
          currentTime, alarm, isRinging, audio, storage, ticks, lastOp, fired,
          lastMatchFire>>

-----------------------------------------------------------------------------
(* Bounds of the model *)

\* number of interval callbacks explored
MaxTicks == 4

\* the page is first opened at 06:59:58.000 local time of day 0
StartClock == 6 * 3600000 + 59 * 60000 + 58 * 1000

\* ms between two clock samples: the nominal period, or a stalled timer
\* (throttled tab, suspended machine) of 4 min 59 s or of one day
OneSecond == 1 * 1000
TickDelays == {OneSecond, 299 * 1000, 24 * 3600000}

\* in a zone with daylight saving the page is also opened at 01:44:58.000
\* of day 1, the night in which the clocks change at 02:00
NightClock == 24 * 3600000 + 3600000 + 44 * 60000 + 58 * 1000

\* a user event happens at a clock sample or half a second after it
HalfSecond == 1000 \div 2

-----------------------------------------------------------------------------
(* JavaScript values *)

Null == -1

Undefined == [t |-> "undefined", b |-> FALSE, s |-> <<>>]
Bool(b) == [t |-> "boolean", b |-> b, s |-> <<>>]
Str(s) == [t |-> "string", b |-> FALSE, s |-> s]

\* ToBoolean: undefined and "" are falsy
Truthy(v) ==
    CASE v.t = "boolean" -> v.b
      [] v.t = "string" -> v.s # <<>>
      [] OTHER -> FALSE

\* ToBoolean of number | null: null and 0 are falsy
TruthyNum(n) == n # Null /\ n # 0

\* !v
Not(v) == Bool(~Truthy(v))

Digits == <<"0", "1", "2", "3", "4", "5", "6", "7", "8", "9">>

\* String(n) for 0 <= n <= 99
String(n) ==
    IF n < 10 THEN <<Digits[n + 1]>>
    ELSE <<Digits[(n \div 10) + 1], Digits[(n % 10) + 1]>>

\* s.padStart(2, '0')
PadStart2(s) == IF Len(s) >= 2 THEN s ELSE <<"0">> \o s

\* a calendar day without a clock change
Day == 24 * 3600000

\* The time zone.  Up to the transition local time is the time axis itself;
\* at the transition, 02:00 local of day 1, the clocks of a zone with
\* daylight saving go back or forward one hour.
Zones == {"fixed", "fallBack", "springForward"}

Transition == Day + 2 * 3600000

ZoneShift ==
    CASE zone = "fallBack" -> 0 - 3600000
      [] zone = "springForward" -> 3600000
      [] OTHER -> 0

\* LocalTime(t) of ECMAScript: the local time of the instant t
LocalTime(t) == IF t >= Transition THEN t + ZoneShift ELSE t

\* UTC(t) of ECMAScript: the instant of the local time l; a local time that
\* occurs twice or not at all is read with the offset before the transition
UTC(l) ==
    IF l < Transition THEN l
    ELSE IF l - ZoneShift >= Transition THEN l - ZoneShift
    ELSE l

\* Date getters, local time
getHours(d) == (LocalTime(d) \div 3600000) % 24
getMinutes(d) == (LocalTime(d) \div 60000) % 60
getSeconds(d) == (LocalTime(d) \div 1000) % 60

\* d.setHours(h, m, 0, 0): the same local calendar day at h:m:00.000
setHours(d, h, m) ==
    UTC((LocalTime(d) - (LocalTime(d) % Day)) + h * 3600000 + m * 60000)

\* d.setDate(d.getDate() + 1): the same local time on the next calendar day
setDateNextDay(d) == UTC(LocalTime(d) + Day)

-----------------------------------------------------------------------------
(* Program constants *)

SNOOZE_DURATION == 5 * 60 * 1000

INTERVAL_MS == 1000

T0600 == <<"0", "6", ":", "0", "0">>
T0630 == <<"0", "6", ":", "3", "0">>
T0700 == <<"0", "7", ":", "0", "0">>
T0730 == <<"0", "7", ":", "3", "0">>
T0800 == <<"0", "8", ":", "0", "0">>
T0705 == <<"0", "7", ":", "0", "5">>
T0130 == <<"0", "1", ":", "3", "0">>
T0230 == <<"0", "2", ":", "3", "0">>

\* the quick-set presets, line 276
QuickSetTimes == {T0600, T0630, T0700, T0730, T0800}

\* values an <input type="time"> reports: "HH:MM", or "" when cleared
TimeInputs == {T0705, <<>>}

DefaultAlarm ==
    [time |-> Str(T0700), enabled |-> Bool(FALSE), snoozed |-> FALSE,
     snoozeUntil |-> Null]

-----------------------------------------------------------------------------
(* The stored text.  kind "none": no item; "empty": the empty string;      *)
(* "garbage": text JSON.parse rejects, such as {bad json; "null": the      *)
(* text null; "object": a JSON object, its members in textual order.       *)

NoItem == [kind |-> "none", members |-> <<>>]
EmptyText == [kind |-> "empty", members |-> <<>>]
BadJson == [kind |-> "garbage", members |-> <<>>]
NullText == [kind |-> "null", members |-> <<>>]
ObjectText(m) == [kind |-> "object", members |-> m]

Member(k, v) == [k |-> k, v |-> v]

\* the value JSON.parse gives property key (the last member of that name)
RECURSIVE Get(_, _)
Get(members, key) ==
    IF members = <<>> THEN Undefined
    ELSE LET last == members[Len(members)]
         IN  IF last.k = key THEN last.v
             ELSE Get(SubSeq(members, 1, Len(members) - 1), key)

\* JSON.stringify({ time: a.time, enabled: a.enabled }): members in the
\* order written, a property whose value is undefined is left out
\* mutant: the members are written enabled first
StringifyEnabledFirst(a) ==
    ObjectText(
        (IF a.enabled = Undefined THEN <<>>
         ELSE <<Member("enabled", a.enabled)>>)
        \o (IF a.time = Undefined THEN <<>> ELSE <<Member("time", a.time)>>))

Stringify(a) ==
    ObjectText(
        (IF a.time = Undefined THEN <<>> ELSE <<Member("time", a.time)>>)
        \o (IF a.enabled = Undefined THEN <<>>
            ELSE <<Member("enabled", a.enabled)>>))

\* stored texts a page load may find
InitialStorage ==
    { NoItem, EmptyText, BadJson, NullText,
      ObjectText(<<Member("time", Str(T0700)), Member("enabled", Bool(FALSE))>>),
      ObjectText(<<Member("enabled", Bool(TRUE)), Member("time", Str(T0700))>>),
      ObjectText(<<Member("enabled", Str(<<"y">>))>>),
      ObjectText(<<Member("time", Str(T0700)), Member("enabled", Bool(TRUE)),
                   Member("snoozed", Bool(TRUE))>>) }

\* items saved by an earlier visit with an alarm set for the night
NightStorage ==
    { ObjectText(<<Member("time", Str(T0130)), Member("enabled", Bool(TRUE))>>),
      ObjectText(<<Member("time", Str(T0230)), Member("enabled", Bool(TRUE))>>) }

\* mutant: the loaded record keeps a stored snoozed
LoadAlarmKeepsSnoozed(saved) ==
    IF saved.kind \in {"none", "empty"}
    THEN [throws |-> FALSE, alarm |-> DefaultAlarm]
    ELSE IF saved.kind = "garbage"
    THEN [throws |-> TRUE, alarm |-> DefaultAlarm]
    ELSE [throws |-> FALSE,
          alarm |-> [time |-> Get(saved.members, "time"),
                     enabled |-> Get(saved.members, "enabled"),
                     snoozed |-> Truthy(Get(saved.members, "snoozed")),
                     snoozeUntil |-> Null]]

\* the useState initializer of lines 15-22; "throws" when JSON.parse throws.
\* Properties other than time and enabled that the spread copies are never
\* read again and are left out of the model's alarm record.
LoadAlarm(saved) ==
    IF saved.kind \in {"none", "empty"}
    THEN [throws |-> FALSE, alarm |-> DefaultAlarm]
    ELSE IF saved.kind = "garbage"
    THEN [throws |-> TRUE, alarm |-> DefaultAlarm]
    ELSE [throws |-> FALSE,
          alarm |-> [time |-> Get(saved.members, "time"),
                     enabled |-> Get(saved.members, "enabled"),
                     snoozed |-> FALSE, snoozeUntil |-> Null]]

\* mutant: the dependency list names alarm.time only
SaveEffectTimeOnly(stored, before, after) ==
    IF after.time # before.time THEN Stringify(after) ELSE stored

\* the save effect, lines 29-31: runs when time or enabled changed
SaveEffect(stored, before, after) ==
    IF after.time # before.time \/ after.enabled # before.enabled
    THEN Stringify(after)
    ELSE stored

-----------------------------------------------------------------------------
(* The alert sound, lines 42-95.  A ref is TRUE when it holds an object;   *)
(* openContexts counts AudioContexts created and not closed,               *)
(* oscillators counts oscillators started and not stopped.                 *)

NoAudio ==
    [audioContextRef |-> FALSE, oscillatorRef |-> FALSE, gainRef |-> FALSE,
     openContexts |-> 0, oscillators |-> 0]

\* line 45 throws when the browser has no usable AudioContext; the guard
\* of line 43 returns before it
startThrows(a, available) == ~a.audioContextRef /\ ~available

\* mutant: the guard of line 43 is missing
startAlarmSoundNoGuard(a) ==
    [audioContextRef |-> TRUE, oscillatorRef |-> TRUE, gainRef |-> TRUE,
     openContexts |-> a.openContexts + 1,
     oscillators |-> a.oscillators + 1]

startAlarmSound(a) ==
    IF a.audioContextRef THEN a
    ELSE [audioContextRef |-> TRUE, oscillatorRef |-> TRUE, gainRef |-> TRUE,
          openContexts |-> a.openContexts + 1,
          oscillators |-> a.oscillators + 1]

stopAlarmSound(a) ==
    [audioContextRef |-> FALSE, oscillatorRef |-> FALSE, gainRef |-> FALSE,
     openContexts |-> IF a.audioContextRef THEN a.openContexts - 1
                      ELSE a.openContexts,
     oscillators |-> IF a.oscillatorRef THEN a.oscillators - 1
                     ELSE a.oscillators]

-----------------------------------------------------------------------------
(* The check-alarm effect, lines 98-119 *)

\* line 102
currentTimeStr(now) ==
    PadStart2(String(getHours(now))) \o <<":">> \o PadStart2(String(getMinutes(now)))

\* what a run of the effect that returns at line 99, 111 or 118 has done
Quiet == [clear |-> FALSE, start |-> FALSE, fired |-> "none"]

\* lines 107-109: setAlarm(clear the snooze), setIsRinging(true),
\* startAlarmSound()
SnoozeFiring == [clear |-> TRUE, start |-> TRUE, fired |-> "snooze"]

\* lines 115-116: setIsRinging(true), startAlarmSound()
MatchFiring == [clear |-> FALSE, start |-> TRUE, fired |-> "match"]

\* mutant: the seconds test of line 115 is missing
checkAlarmAnySecond(a, r, cur, dateNow) ==
    IF ~Truthy(a.enabled) \/ r THEN Quiet
    ELSE IF a.snoozed /\ TruthyNum(a.snoozeUntil)
    THEN IF dateNow >= a.snoozeUntil THEN SnoozeFiring ELSE Quiet
    ELSE IF Str(currentTimeStr(cur)) = a.time /\ ~a.snoozed
    THEN MatchFiring
    ELSE Quiet

\* mutant: the guard of line 99 does not look at isRinging
checkAlarmIgnoresRinging(a, r, cur, dateNow) ==
    IF ~Truthy(a.enabled) THEN Quiet
    ELSE IF a.snoozed /\ TruthyNum(a.snoozeUntil)
    THEN IF dateNow >= a.snoozeUntil THEN SnoozeFiring ELSE Quiet
    ELSE IF Str(currentTimeStr(cur)) = a.time /\ getSeconds(cur) = 0
            /\ ~a.snoozed
    THEN MatchFiring
    ELSE Quiet

\* mutant: the expired snooze is not cleared
checkAlarmKeepsSnoozed(a, r, cur, dateNow) ==
    IF ~Truthy(a.enabled) \/ r THEN Quiet
    ELSE IF a.snoozed /\ TruthyNum(a.snoozeUntil)
    THEN IF dateNow >= a.snoozeUntil
         THEN [SnoozeFiring EXCEPT !.clear = FALSE]
         ELSE Quiet
    ELSE IF Str(currentTimeStr(cur)) = a.time /\ getSeconds(cur) = 0
            /\ ~a.snoozed
    THEN MatchFiring
    ELSE Quiet

\* One run of the effect with the rendered alarm a, ringing flag r and
\* clock sample cur in its closure, and Date.now() = dateNow: which state
\* updates it queues (clear: line 107; setIsRinging(true) whenever fired is
\* not "none") and whether it calls startAlarmSound().
checkAlarm(a, r, cur, dateNow) ==
    IF ~Truthy(a.enabled) \/ r THEN Quiet
    ELSE IF a.snoozed /\ TruthyNum(a.snoozeUntil)
    THEN IF dateNow >= a.snoozeUntil THEN SnoozeFiring ELSE Quiet
    ELSE IF Str(currentTimeStr(cur)) = a.time /\ getSeconds(cur) = 0
            /\ ~a.snoozed
    THEN MatchFiring
    ELSE Quiet

-----------------------------------------------------------------------------
(* The handlers: what each does to the alarm record *)

\* lines 121-125
handleDismiss(a) ==
    [a EXCEPT !.enabled = Bool(FALSE), !.snoozed = FALSE, !.snoozeUntil = Null]

\* mutant: the snooze delay is taken in seconds
handleSnoozeSeconds(a, dateNow) ==
    [a EXCEPT !.snoozed = TRUE, !.snoozeUntil = dateNow + 5 * 1000]

\* lines 127-135
handleSnooze(a, dateNow) ==
    [a EXCEPT !.snoozed = TRUE, !.snoozeUntil = dateNow + SNOOZE_DURATION]

\* mutant: the toggle clears snoozed but not snoozeUntil
toggleAlarmKeepsUntil(a) ==
    [a EXCEPT !.enabled = Not(a.enabled), !.snoozed = FALSE]

\* lines 137-144
toggleAlarm(a) ==
    [a EXCEPT !.enabled = Not(a.enabled), !.snoozed = FALSE, !.snoozeUntil = Null]

\* lines 269 and 279
setTime(a, t) ==
    [a EXCEPT !.time = Str(t), !.snoozed = FALSE, !.snoozeUntil = Null]

\* mutant: the buttons stop the sound and leave the flag
ringingAfterButtonKeeps(r) == r

\* whether the handler of a ringing-overlay button clears the flag (122, 128)
ringingAfterButton(r) == FALSE

-----------------------------------------------------------------------------
(* The time-remaining query, lines 158-187 *)

\* Number(...) of a string that is not a numeric literal, and every
\* arithmetic result computed from it
NaN == -2

\* s.split(':'): the pieces between the colons
RECURSIVE split(_)
split(s) ==
    IF \A i \in 1..Len(s) : s[i] # ":" THEN <<s>>
    ELSE LET i == CHOOSE j \in 1..Len(s) :
                      s[j] = ":" /\ \A k \in 1..(j - 1) : s[k] # ":"
         IN  <<SubSeq(s, 1, i - 1)>> \o split(SubSeq(s, i + 1, Len(s)))

\* Number(s) of a string of decimal digits, of the empty string (0) and of
\* any other text met here (NaN)
RECURSIVE Number(_)
Number(s) ==
    IF s = <<>> THEN 0
    ELSE IF \E i \in 1..Len(s) : \A d \in 1..10 : Digits[d] # s[i] THEN NaN
    ELSE LET last == CHOOSE d \in 0..9 : Digits[d + 1] = s[Len(s)]
         IN  10 * Number(SubSeq(s, 1, Len(s) - 1)) + last

\* the values the query returns: null, `Snooze: ${minutes}m`,
\* `in ${hours}h ${minutes}m`, `in ${minutes}m`; "throws" is the TypeError
\* of line 162 on a time that is not a string
TimeUntil(kind, hours, minutes) ==
    [kind |-> kind, hours |-> hours, minutes |-> minutes]

\* getTimeUntilAlarm on the alarm a with currentTime = now and
\* Date.now() = dateNow.  setHours on a NaN field makes the date invalid:
\* every comparison with it is false and every difference NaN (`in NaNm`).
getTimeUntilAlarm(a, now, dateNow) ==
    IF ~Truthy(a.enabled) THEN TimeUntil("null", 0, 0)
    ELSE IF a.time.t # "string" THEN TimeUntil("throws", 0, 0)
    ELSE
    LET parts == split(a.time.s)
        alarmHours == Number(parts[1])
        alarmMinutes == IF Len(parts) >= 2 THEN Number(parts[2]) ELSE NaN
        invalid == alarmHours = NaN \/ alarmMinutes = NaN
        today == setHours(now, alarmHours, alarmMinutes)
        alarmDate == IF today <= now THEN setDateNextDay(today) ELSE today
        snoozeDiff == a.snoozeUntil - dateNow
        diff == alarmDate - now
        hours == diff \div 3600000
        minutes == (diff % 3600000) \div 60000
    IN  IF a.snoozed /\ TruthyNum(a.snoozeUntil) /\ snoozeDiff > 0
        THEN TimeUntil("snooze", 0, (snoozeDiff + 59999) \div 60000)
        ELSE IF invalid THEN TimeUntil("in m", NaN, NaN)
        ELSE IF hours > 0 THEN TimeUntil("in h m", hours, minutes)
        ELSE TimeUntil("in m", 0, minutes)

-----------------------------------------------------------------------------
(* Steps *)

\* the history keeps a firing only while the clock sample stays in its minute
Recent(f, cur) ==
    IF f # Null /\ f \div 60000 = cur \div 60000 THEN f ELSE Null

\* The render of lines 243-246 calls getTimeUntilAlarm when alarm.enabled is
\* truthy, and line 162 calls alarm.time.split: a TypeError unless time is
\* a string.
RenderThrows(a) == getTimeUntilAlarm(a, 0, 0).kind = "throws"

\* no update waits for a render
NoUpdates ==
    [time |-> Null, clear |-> FALSE, resnooze |-> FALSE, ring |-> "none",
     stale |-> FALSE]

\* the queue q after the calls of the effect run `run`: setAlarm of line
\* 107 (which then is the last update of the alarm), setIsRinging(true) of
\* line 108 or 115 (which then is the last update of the flag)
Enqueue(q, run) ==
    [q EXCEPT !.clear = @ \/ run.clear,
              !.resnooze = @ /\ ~run.clear,
              !.ring = IF @ # "none" THEN @ ELSE run.fired,
              !.stale = @ /\ run.fired = "none"]

\* React renders a handler's update at once and leaves an update queued
\* before it by an effect, with the updates called after it, for a later
\* render, which applies them all in the order of their calls.  So the
\* queue q after the calls of the handler of op: a queued
\* setIsRinging(true) stays queued, overridden by the setIsRinging(false)
\* of lines 122 and 128; a queued line 107 stays queued, and after it the
\* updater of line 129 will run again in that render, with the Date.now()
\* of then, unless another updater (lines 124, 138, 147, which clear the
\* snooze fields whatever precedes them) is called after it.
AfterHandler(q, op) ==
    CASE op = "snooze" ->
            [q EXCEPT !.resnooze = q.clear,
                      !.stale = @ \/ q.ring # "none", !.ring = "none"]
      [] op = "dismiss" ->
            [q EXCEPT !.resnooze = FALSE,
                      !.stale = @ \/ q.ring # "none", !.ring = "none"]
      [] OTHER -> [q EXCEPT !.resnooze = FALSE]

\* the latest clock sample taken, rendered or not
LastSample == IF queued.time # Null THEN queued.time ELSE currentTime

\* An error thrown by a render or by an effect, with no error boundary
\* around App, makes React unmount the tree: the component state and the
\* queued updates are gone, the interval is cleared (line 38), the audio
\* objects are not touched.
Crash(op, stored1, au1, cur1, firing) ==
    /\ app' = "crashed"
    /\ pending' = "none"
    /\ queued' = NoUpdates
    /\ timer' = Null
    /\ alarm' = DefaultAlarm
    /\ isRinging' = FALSE
    /\ audio' = au1
    /\ currentTime' = cur1
    /\ storage' = stored1
    /\ fired' = firing
    /\ lastMatchFire' = Recent(lastMatchFire, cur1)
    /\ lastOp' = op

\* The pending effects, run with the values of the render that scheduled
\* them (the state: no render has happened since), on the audio refs au0
\* and with Date.now() = dateNow.  The save effect (and setInterval, which
\* times the callbacks from dateNow) is pending only after the first
\* render; a later render that leaves time and enabled as they were has
\* nothing new to save.
PendingEffects(au0, dateNow) ==
    LET run == IF pending = "none" THEN Quiet
               ELSE checkAlarm(alarm, isRinging, currentTime, dateNow)
    IN  [throws |-> run.start /\ startThrows(au0, audioAvailable),
         run |-> run,
         audio |-> IF run.start THEN startAlarmSound(au0) ELSE au0,
         storage |-> IF pending = "mount" THEN Stringify(alarm) ELSE storage,
         timer |-> IF pending = "mount" THEN dateNow ELSE timer]

\* A click or an input change whose handler queued the alarm a1 and the
\* ringing flag r1 and left the audio refs au0.  React first runs the
\* pending effects; it then renders the handler's updates only (the
\* updates of effects and of the interval callback have a lower priority
\* and stay queued), and runs the effects of that render before the task
\* ends.
Commit(op, a1, r1, au0) ==
    LET f == PendingEffects(au0, clock)
        run == checkAlarm(a1, r1, currentTime, clock)
        stored1 == SaveEffect(f.storage, alarm, a1)
        firing == IF f.run.fired # "none" THEN f.run.fired ELSE run.fired
    IN  IF f.throws
        THEN Crash(op, f.storage, au0, currentTime, f.run.fired)
        ELSE IF RenderThrows(a1)
        THEN Crash(op, f.storage, f.audio, currentTime, f.run.fired)
        ELSE IF run.start /\ startThrows(f.audio, audioAvailable)
        THEN Crash(op, stored1, f.audio, currentTime, firing)
        ELSE /\ app' = "mounted"
             /\ pending' = "none"
             /\ queued' = Enqueue(Enqueue(AfterHandler(queued, op), f.run),
                                  run)
             /\ timer' = f.timer
             /\ alarm' = a1
             /\ isRinging' = r1
             /\ audio' = IF run.start THEN startAlarmSound(f.audio)
                         ELSE f.audio
             /\ storage' = stored1
             /\ fired' = firing
             /\ lastOp' = op
             /\ UNCHANGED <<currentTime, lastMatchFire>>

\* a page about to load at the instant c with the item stored
PageAt(c, stored) ==
    /\ app = "unloaded"
    /\ pending = "none"
    /\ queued = NoUpdates
    /\ timer = Null
    /\ clock = c
    /\ currentTime = c
    /\ alarm = DefaultAlarm
    /\ isRinging = FALSE
    /\ audio = NoAudio
    /\ storage = stored
    /\ ticks = 0
    /\ lastOp = "init"
    /\ fired = "none"
    /\ lastMatchFire = Null

\* what every page load starts from, whatever the browser
InitPage == \E stored \in InitialStorage : PageAt(StartClock, stored)

\* a browser with a working AudioContext, in a zone without daylight saving
Init == InitPage /\ audioAvailable = TRUE /\ zone = "fixed"

\* any browser
InitAnyAudio == InitPage /\ audioAvailable \in BOOLEAN /\ zone = "fixed"

\* any time zone, the page being opened in the morning of day 0 or, with
\* an alarm for the night saved earlier, in the hour before the clocks
\* change
InitAnyZone ==
    /\ audioAvailable = TRUE
    /\ zone \in Zones
    /\ \/ InitPage
       \/ \E stored \in NightStorage : PageAt(NightClock, stored)

\* first render of App, lines 13-26 and 189-307; a throwing initializer or
\* render leaves nothing mounted: no effect runs, no interval is set
Mount ==
    /\ app = "unloaded"
    /\ LET load == LoadAlarm(storage)
       IN  IF load.throws
           THEN /\ app' = "crashed"
                /\ lastOp' = "mount"
                /\ UNCHANGED <<pending, queued, timer, currentTime, alarm,
                               isRinging, audio, storage, fired,
                               lastMatchFire>>
           ELSE IF RenderThrows(load.alarm)
           THEN Crash("mount", storage, NoAudio, clock, "none")
           ELSE /\ app' = "mounted"
                /\ pending' = "mount"
                /\ queued' = NoUpdates
                /\ timer' = Null
                /\ alarm' = load.alarm
                /\ isRinging' = FALSE
                /\ audio' = NoAudio
                /\ currentTime' = clock
                /\ fired' = "none"
                /\ lastMatchFire' = Recent(lastMatchFire, clock)
                /\ lastOp' = "mount"
                /\ UNCHANGED storage
    /\ UNCHANGED <<audioAvailable, zone, clock, ticks>>

\* the task in which React runs the pending effects: after the first
\* render the save effect, setInterval and the check-alarm effect, after
\* a later render the check-alarm effect.  The state updates of the
\* check-alarm effect are queued; the sound starts in this task.
Effects ==
    /\ app = "mounted"
    /\ pending # "none"
    /\ LET f == PendingEffects(audio, clock)
           op == IF pending = "mount" THEN "mountEffects" ELSE "effects"
       IN  IF f.throws
           THEN Crash(op, f.storage, audio, currentTime, f.run.fired)
           ELSE /\ pending' = "none"
                /\ queued' = Enqueue(queued, f.run)
                /\ timer' = f.timer
                /\ audio' = f.audio
                /\ storage' = f.storage
                /\ fired' = f.run.fired
                /\ lastOp' = op
                /\ UNCHANGED <<app, currentTime, alarm, isRinging,
                               lastMatchFire>>
    /\ UNCHANGED <<audioAvailable, zone, clock, ticks>>

\* The task in which React renders the queued updates: it runs the pending
\* effects first (their updates join the queue), then renders the alarm
\* computed anew if line 107 was queued (snoozed from now if the updater of
\* line 129 is the last one called after it, with the snooze cleared
\* otherwise), the ringing flag set if a setIsRinging(true) not overridden
\* was queued, and the queued clock sample.  The check-alarm effect of this
\* render is left pending if one of its dependencies (line 119) changed:
\* the sample, the alarm object or the flag.
Render ==
    /\ app = "mounted"
    /\ queued # NoUpdates
    /\ LET f == PendingEffects(audio, clock)
           q == Enqueue(queued, f.run)
           a1 == IF ~q.clear THEN alarm
                 ELSE IF q.resnooze THEN handleSnooze(alarm, clock)
                 ELSE [alarm EXCEPT !.snoozed = FALSE, !.snoozeUntil = Null]
           r1 == isRinging \/ q.ring # "none"
           cur1 == IF q.time # Null THEN q.time ELSE currentTime
           entered == IF ~isRinging /\ r1 THEN q.ring ELSE "none"
           changed == q.time # Null \/ q.clear \/ r1 # isRinging
       IN  IF f.throws
           THEN Crash("render", f.storage, audio, currentTime, f.run.fired)
           ELSE IF RenderThrows(a1)
           THEN Crash("render", f.storage, f.audio, cur1, f.run.fired)
           ELSE /\ pending' = IF changed THEN "render" ELSE "none"
                /\ queued' = NoUpdates
                /\ timer' = f.timer
                /\ alarm' = a1
                /\ isRinging' = r1
                /\ currentTime' = cur1
                /\ audio' = f.audio
                /\ storage' = f.storage
                /\ fired' = entered
                /\ lastMatchFire' =
                      Recent(IF entered = "match" THEN currentTime
                             ELSE lastMatchFire, cur1)
                /\ lastOp' = "render"
                /\ UNCHANGED app
    /\ UNCHANGED <<audioAvailable, zone, clock, ticks>>

\* the interval callback of lines 35-37, d ms after the setInterval call
\* (the first one) or after the previous callback:
\* setCurrentTime(new Date()) queues the sample; the interval exists once
\* the mount effects have run; a sample taken before the previous one was
\* rendered replaces it in the render to come
Tick ==
    /\ app = "mounted"
    /\ timer # Null
    /\ ticks < MaxTicks
    /\ \E d \in TickDelays :
          LET now == timer + d
          IN  /\ d >= INTERVAL_MS
              /\ now >= clock
              /\ clock' = now
              /\ timer' = now
              /\ queued' = [queued EXCEPT !.time = now]
    /\ ticks' = ticks + 1
    /\ lastOp' = "tick"
    /\ fired' = "none"
    /\ UNCHANGED <<app, audioAvailable, zone, pending, currentTime, alarm,
                   isRinging, audio, storage, lastMatchFire>>

\* half a second passes with no event (only after a sample taken on a
\* whole second, which keeps the clock on half-second instants)
Elapse ==
    /\ app = "mounted"
    /\ clock = LastSample
    /\ clock % INTERVAL_MS = 0
    /\ clock' = clock + HalfSecond
    /\ lastOp' = "elapse"
    /\ fired' = "none"
    /\ UNCHANGED <<app, audioAvailable, zone, pending, queued, timer,
                   currentTime, alarm, isRinging, audio, storage, ticks,
                   lastMatchFire>>

\* click on the toggle switch, line 252
Toggle ==
    /\ app = "mounted"
    /\ Commit("toggle", toggleAlarm(alarm), isRinging, audio)
    /\ UNCHANGED <<audioAvailable, zone, clock, ticks>>

\* change of the time input, line 269
SetTime ==
    /\ app = "mounted"
    /\ \E t \in TimeInputs :
          Commit("setTime", setTime(alarm, t), isRinging, audio)
    /\ UNCHANGED <<audioAvailable, zone, clock, ticks>>

\* click on a quick-set button, line 279
QuickSet ==
    /\ app = "mounted"
    /\ \E t \in QuickSetTimes :
          Commit("quickSet", setTime(alarm, t), isRinging, audio)
    /\ UNCHANGED <<audioAvailable, zone, clock, ticks>>

\* handleSnooze and handleDismiss
SnoozeStep ==
    /\ app = "mounted"
    /\ Commit("snooze", handleSnooze(alarm, clock),
              ringingAfterButton(isRinging), stopAlarmSound(audio))
    /\ UNCHANGED <<audioAvailable, zone, clock, ticks>>

DismissStep ==
    /\ app = "mounted"
    /\ Commit("dismiss", handleDismiss(alarm),
              ringingAfterButton(isRinging), stopAlarmSound(audio))
    /\ UNCHANGED <<audioAvailable, zone, clock, ticks>>

\* the two buttons exist only inside the ringing overlay, lines 212-234
Snooze == isRinging /\ SnoozeStep

Dismiss == isRinging /\ DismissStep

\* the two handlers called in whatever state, as by a click
CallSnooze == SnoozeStep

CallDismiss == DismissStep

\* the page is reloaded: every object of the page is gone, pending effects
\* and queued updates never run, the item stays
Reload ==
    /\ app \in {"mounted", "crashed", "unmounted"}
    /\ app' = "unloaded"
    /\ pending' = "none"
    /\ queued' = NoUpdates
    /\ timer' = Null
    /\ alarm' = DefaultAlarm
    /\ isRinging' = FALSE
    /\ audio' = NoAudio
    /\ currentTime' = clock
    /\ lastOp' = "reload"
    /\ fired' = "none"
    /\ lastMatchFire' = Recent(lastMatchFire, clock)
    /\ UNCHANGED <<audioAvailable, zone, clock, storage, ticks>>

\* the host tears the component down (root.unmount(), hot reload): React
\* runs the pending effects, then the cleanups, of which there is one,
\* clearInterval, line 38; the queued updates are never rendered; the refs
\* die with the component, the audio objects they held are neither stopped
\* nor closed
Unmount ==
    /\ app = "mounted"
    /\ LET f == PendingEffects(audio, clock)
       IN  IF f.throws
           THEN Crash("unmount", f.storage, audio, currentTime, f.run.fired)
           ELSE /\ app' = "unmounted"
                /\ pending' = "none"
                /\ queued' = NoUpdates
                /\ timer' = Null
                /\ alarm' = DefaultAlarm
                /\ isRinging' = FALSE
                /\ audio' = f.audio
                /\ storage' = f.storage
                /\ lastOp' = "unmount"
                /\ fired' = f.run.fired
                /\ lastMatchFire' = Recent(lastMatchFire, currentTime)
                /\ UNCHANGED currentTime
    /\ UNCHANGED <<audioAvailable, zone, clock, ticks>>

\* startAlarmSound and stopAlarmSound called directly, in whatever state;
\* a throw of line 45 goes to the caller and leaves the page as it was
CallStart ==
    /\ app = "mounted"
    /\ audio' = IF startThrows(audio, audioAvailable) THEN audio
                ELSE startAlarmSound(audio)
    /\ lastOp' = "startSound"
    /\ fired' = "none"
    /\ UNCHANGED <<app, audioAvailable, zone, pending, queued, timer, clock,
                   currentTime, alarm, isRinging, storage, ticks,
                   lastMatchFire>>

CallStop ==
    /\ app = "mounted"
    /\ audio' = stopAlarmSound(audio)
    /\ lastOp' = "stopSound"
    /\ fired' = "none"
    /\ UNCHANGED <<app, audioAvailable, zone, pending, queued, timer, clock,
                   currentTime, alarm, isRinging, storage, ticks,
                   lastMatchFire>>

Next ==
    \/ Mount
    \/ Effects
    \/ Render
    \/ Tick
    \/ Elapse
    \/ Toggle
    \/ SetTime
    \/ QuickSet
    \/ Snooze
    \/ Dismiss
    \/ Reload
    \/ Unmount

\* the page as the user can drive it, in a browser with working audio and
\* a zone without daylight saving
Spec == Init /\ [][Next]_vars

\* the same page in any browser
SpecAnyAudio == InitAnyAudio /\ [][Next]_vars

\* the same page in any time zone
SpecAnyZone == InitAnyZone /\ [][Next]_vars

NextSound ==
    \/ Next
    \/ CallStart
    \/ CallStop

\* the page with the two sound callbacks also callable in any state
SpecSound == Init /\ [][NextSound]_vars

NextHandlers ==
    \/ Next
    \/ CallSnooze
    \/ CallDismiss

\* the same page with handleSnooze and handleDismiss also callable when the
\* alarm does not ring, in any state
SpecHandlers == Init /\ [][NextHandlers]_vars

-----------------------------------------------------------------------------
(* Vocabulary of the properties *)

\* no effect is pending and no update of an effect waits for its render
Idle == pending = "none" /\ ~queued.clear /\ queued.ring = "none"

TwoDigits(n) == <<Digits[(n \div 10) + 1], Digits[(n % 10) + 1]>>

\* the string "HH:MM" of hour h and minute m
ClockFace(h, m) == Str(TwoDigits(h) \o <<":">> \o TwoDigits(m))

DigitOf(c) == CHOOSE d \in 0..9 : Digits[d + 1] = c

\* the hour and the minute a string of five characters names
FaceHour(v) == 10 * DigitOf(v.s[1]) + DigitOf(v.s[2])
FaceMinute(v) == 10 * DigitOf(v.s[4]) + DigitOf(v.s[5])

\* v is a string "HH:MM" with HH in 00..23 and MM in 00..59
IsClockFace(v) ==
    /\ v.t = "string" /\ Len(v.s) = 5 /\ v.s[3] = ":"
    /\ \A i \in {1, 2, 4, 5} : \E d \in 1..10 : Digits[d] = v.s[i]
    /\ FaceHour(v) < 24 /\ FaceMinute(v) < 60

\* the sample d is second 0 of the local minute the value v names
AtMinuteStart(d, v) ==
    /\ v = ClockFace((LocalTime(d) \div 3600000) % 24,
                     (LocalTime(d) \div 60000) % 60)
    /\ (LocalTime(d) \div 1000) % 60 = 0

Enabled(a) == Truthy(a.enabled)

SnoozeCleared(a) == ~a.snoozed /\ a.snoozeUntil = Null

SoundOff(au) ==
    /\ au.openContexts = 0 /\ au.oscillators = 0
    /\ ~au.audioContextRef /\ ~au.oscillatorRef /\ ~au.gainRef

SoundOn(au) == au.openContexts = 1 /\ au.oscillators = 1 /\ au.audioContextRef

FiveMinutes == 5 * 60 * 1000

SevenOClock == 7 * 3600000

-----------------------------------------------------------------------------
(* C1: an evaluation of the check-alarm effect that finds the alarm        *)
(* enabled, not snoozed and not ringing asks for Ringing                   *)
(* (setIsRinging(true)) and starts the sound (one audio context, one       *)
(* oscillator, none before) if and only if the clock sample it is given is *)
(* second 0 of the configured HH:MM; otherwise it queues nothing and the   *)
(* sound stays as it was.  The evaluation itself changes no rendered       *)
(* state: the render that follows sets the ringing flag exactly when it    *)
(* was asked for, and starts no sound.  This holds of the evaluation after *)
(* the render of a tick, after the toggle switched the alarm on, after a   *)
(* time edit of an enabled alarm and after a page load.  With time 07:00   *)
(* the tick at 06:59:59 does not fire and the tick at 07:00:00 does.  (The *)
(* evaluation after a click is taken with no other evaluation pending, so  *)
(* that it is the only one of the step.)                                   *)
C1_TickFiresAtMinuteStart ==
    [][/\ (lastOp' = "effects" /\ Enabled(alarm) /\ ~alarm.snoozed
                              /\ ~isRinging)
          => /\ fired' = "match" <=> AtMinuteStart(currentTime, alarm.time)
             /\ fired' = "match"
                   => queued'.ring # "none" /\ SoundOn(audio')
                      /\ SoundOff(audio)
             /\ fired' # "match" => queued' = queued /\ audio' = audio
             /\ alarm' = alarm /\ isRinging' = isRinging
       /\ (lastOp' = "render" /\ pending = "none")
          => /\ isRinging' <=> (isRinging \/ queued.ring # "none")
             /\ audio' = audio
       /\ (lastOp' = "toggle" /\ Idle /\ ~Enabled(alarm) /\ ~isRinging)
          => /\ queued'.ring = "match"
                   <=> AtMinuteStart(currentTime, alarm.time)
             /\ queued'.ring = "match" => SoundOn(audio') /\ SoundOff(audio)
             /\ queued'.ring # "match" => audio' = audio
       /\ (lastOp' \in {"setTime", "quickSet"} /\ Idle
                             /\ Enabled(alarm) /\ ~isRinging)
          => /\ queued'.ring = "match"
                   <=> AtMinuteStart(currentTime, alarm'.time)
             /\ queued'.ring = "match" => SoundOn(audio') /\ SoundOff(audio)
             /\ queued'.ring # "match" => audio' = audio
       /\ (lastOp' = "mountEffects" /\ app' = "mounted" /\ Enabled(alarm))
          => /\ queued'.ring = "match"
                   <=> AtMinuteStart(currentTime, alarm.time)
             /\ queued'.ring = "match" => SoundOn(audio')
             /\ queued'.ring # "match" => SoundOff(audio')]_vars

\* the render after the evaluation of the 07:00:00 tick, the second tick
C1_Witness ==
    /\ ticks = 2 /\ lastOp = "render" /\ fired = "match"
    /\ currentTime = SevenOClock
    /\ alarm.time = Str(T0700)
    /\ isRinging /\ SoundOn(audio)

(* C2 (as claimed): the time match never takes the alarm to Ringing a      *)
(* second time in the same minute of the same day, whatever the user does  *)
(* in between.                                                             *)
C2_OneMatchFiringPerDay ==
    [][lastOp' = "render" /\ fired' = "match" => lastMatchFire = Null]_vars

(* C3: snooze pressed while ringing at instant t leaves snoozed = true and *)
(* snoozeUntil = t + 5 minutes, clears the ringing flag, stops the sound   *)
(* and releases the audio objects, and leaves time and enabled unchanged.  *)
C3_SnoozeEffect ==
    [][(lastOp' = "snooze" /\ isRinging)
        => /\ alarm'.snoozed
           /\ alarm'.snoozeUntil = clock + FiveMinutes
           /\ clock' = clock
           /\ ~isRinging'
           /\ SoundOff(audio')
           /\ alarm'.time = alarm.time
           /\ alarm'.enabled = alarm.enabled]_vars

C3_Witness ==
    /\ lastOp = "snooze"
    /\ alarm.snoozed /\ alarm.snoozeUntil = clock + FiveMinutes
    /\ clock = SevenOClock + 2 * 1000
    /\ ~isRinging /\ SoundOff(audio)
    /\ Enabled(alarm)

(* C4 (as claimed): the evaluation after the render of a tick that finds   *)
(* the alarm snoozed asks for Ringing, clears the snooze fields and        *)
(* restarts the sound exactly when the instant has reached snoozeUntil; an *)
(* earlier one changes nothing.  (snoozed is cleared by every user action  *)
(* but snooze, so a snoozed alarm has seen no user action since.)          *)
C4_SnoozeExpiryRings ==
    [][(lastOp' = "effects" /\ alarm.snoozed /\ ~isRinging)
        => IF clock >= alarm.snoozeUntil
           THEN queued'.ring # "none" /\ queued'.clear /\ SoundOn(audio')
           ELSE queued' = queued /\ audio' = audio]_vars

(* C5 (as claimed): dismiss, in whatever state it is called, leaves        *)
(* enabled = false, the ringing flag clear and not asked for, no audio     *)
(* object alive, snoozed = false and snoozeUntil = null; a second dismiss  *)
(* right after changes nothing.                                            *)
C5_DismissDisables ==
    [][lastOp' = "dismiss"
        => /\ alarm'.enabled = Bool(FALSE)
           /\ ~isRinging' /\ queued'.ring = "none"
           /\ SoundOff(audio')
           /\ SnoozeCleared(alarm')
           /\ alarm'.time = alarm.time
           /\ lastOp = "dismiss"
                => alarm' = alarm /\ isRinging' = isRinging /\ audio' = audio
                   /\ storage' = storage]_vars

(* C6 (as claimed): toggling an enabled alarm leaves it disabled and not   *)
(* ringing, with the snooze fields cleared.                                *)
C6_ToggleOffLeavesRinging ==
    [][(lastOp' = "toggle" /\ Enabled(alarm))
        => /\ alarm'.enabled = Bool(FALSE)
           /\ ~isRinging'
           /\ SnoozeCleared(alarm')]_vars

(* C7 (as claimed): a time edit (here: of an alarm whose enabled field is  *)
(* a boolean, with no evaluation pending and no update waiting, so that    *)
(* the edit is all the step does) sets time to one of the offered values,  *)
(* clears the snooze fields and leaves enabled, the ringing flag, rendered *)
(* or asked for, and the audio objects as they were.                       *)
C7_EditLeavesRinging ==
    [][(lastOp' \in {"setTime", "quickSet"} /\ alarm.enabled.t = "boolean"
                                           /\ Idle)
        => /\ \E t \in TimeInputs \cup QuickSetTimes : alarm'.time = Str(t)
           /\ SnoozeCleared(alarm')
           /\ alarm'.enabled = alarm.enabled
           /\ isRinging' = isRinging
           /\ queued'.ring = "none"
           /\ audio' = audio]_vars

(* C8 (as claimed): snooze or dismiss called while not ringing leaves      *)
(* time, enabled, snoozed, snoozeUntil and the ringing flag unchanged.     *)
C8_NoOpUnlessRinging ==
    [][(lastOp' \in {"snooze", "dismiss"} /\ ~isRinging)
        => alarm' = alarm /\ isRinging' = isRinging]_vars

(* C9: whenever the page is mounted and its first save has run, the stored *)
(* text is a JSON object whose only members are time and enabled, holding  *)
(* the values of the current alarm record (a member is absent exactly when *)
(* the value is undefined): snoozed, snoozeUntil and the ringing flag are  *)
(* never stored.                                                           *)
C9_StoredIsTimeAndEnabled ==
    app = "mounted" /\ pending # "mount"
        => /\ storage.kind = "object"
           /\ \A i \in 1..Len(storage.members) :
                 storage.members[i].k \in {"time", "enabled"}
           /\ Len(storage.members) <= 2
           /\ Get(storage.members, "time") = alarm.time
           /\ Get(storage.members, "enabled") = alarm.enabled

C9_Witness ==
    /\ app = "mounted" /\ pending = "none"
    /\ alarm.snoozed /\ alarm.snoozeUntil # Null
    /\ alarm.time = Str(T0705) /\ alarm.enabled = Bool(TRUE)
    /\ storage = ObjectText(<<Member("time", Str(T0705)),
                              Member("enabled", Bool(TRUE))>>)

\* a stored text that is a well-formed two-field record
WellFormedRecord(text) ==
    /\ text.kind = "object"
    /\ Len(text.members) = 2
    /\ {text.members[1].k, text.members[2].k} = {"time", "enabled"}
    /\ IsClockFace(Get(text.members, "time"))
    /\ Get(text.members, "enabled").t = "boolean"

(* C10 (as claimed): a page load never fails; it yields the stored time    *)
(* and enabled when the stored text is a well-formed two-field record and  *)
(* the default 07:00 / disabled otherwise, so the loaded time is always a  *)
(* well-formed HH:MM and enabled a boolean.                                *)
C10_LoadFailsClosed ==
    [][lastOp' = "mount"
        => /\ app' = "mounted"
           /\ IF WellFormedRecord(storage)
              THEN /\ alarm'.time = Get(storage.members, "time")
                   /\ alarm'.enabled = Get(storage.members, "enabled")
              ELSE /\ alarm'.time = ClockFace(7, 0)
                   /\ alarm'.enabled = Bool(FALSE)
           /\ IsClockFace(alarm'.time)
           /\ alarm'.enabled.t = "boolean"]_vars

\* a stored text that is a JSON object holding a well-formed time and a
\* boolean enabled (and possibly other members)
HoldsConfig(text) ==
    /\ text.kind = "object"
    /\ IsClockFace(Get(text.members, "time"))
    /\ Get(text.members, "enabled").t = "boolean"

(* C11: the render of a reloaded page, whatever the page was doing when it *)
(* was reloaded, has the stored time and enabled, snoozed false,           *)
(* snoozeUntil null, the ringing flag false and no audio object: an        *)
(* enabled alarm is armed.                                                 *)
C11_ReloadComesBackArmed ==
    [][lastOp = "reload" /\ lastOp' = "mount" /\ HoldsConfig(storage)
        => /\ app' = "mounted"
           /\ SnoozeCleared(alarm')
           /\ alarm'.time = Get(storage.members, "time")
           /\ alarm'.enabled = Get(storage.members, "enabled")
           /\ ~isRinging'
           /\ SoundOff(audio')]_vars

\* the page was reloaded in the minute in which its alarm had rung: it is
\* on screen again, enabled and armed
C11_Witness ==
    /\ app = "mounted" /\ lastOp = "mount" /\ ticks >= 2
    /\ lastMatchFire # Null
    /\ Enabled(alarm) /\ SnoozeCleared(alarm)
    /\ ~isRinging /\ SoundOff(audio)

\* a stored text the program's own save produces: time before enabled, no
\* other member
OwnSave(text) ==
    /\ text.kind = "object"
    /\ [i \in 1..Len(text.members) |-> text.members[i].k]
          \in {<<>>, <<"time">>, <<"enabled">>, <<"time", "enabled">>}

(* C12 (as claimed): loading the stored text and saving what was loaded    *)
(* leaves the stored text as it was, whatever the stored text.             *)
C12_LoadThenSaveIsFixedPoint ==
    [][lastOp' = "mountEffects" /\ app' = "mounted"
        => storage' = storage]_vars

(* C12 (amended): loading a text that the program's own save wrote, and    *)
(* saving what was loaded, leaves the stored text as it was.               *)
C12_OwnSaveIsFixedPoint ==
    [][lastOp' = "mountEffects" /\ OwnSave(storage)
        => storage' = storage]_vars

\* the page was reloaded after the user had set 07:05 and enabled the alarm
C12_Witness ==
    /\ lastOp = "mountEffects" /\ app = "mounted"
    /\ storage = ObjectText(<<Member("time", Str(T0705)),
                              Member("enabled", Bool(TRUE))>>)

(* C13 (as claimed): whether or not the browser can start the alert sound, *)
(* an evaluation that fires leaves the page running with the ringing flag  *)
(* set or about to be set by the next render, so that snooze and dismiss   *)
(* can be used.                                                            *)
C13_RingsWithoutAudio ==
    [][fired' # "none" /\ lastOp' # "unmount"
        => app' = "mounted" /\ (isRinging' \/ queued'.ring # "none")]_vars

(* C14: at most one audio context and one oscillator exist at any time;    *)
(* starting the sound while a session is held changes nothing; stopping    *)
(* it, from the callback or from the snooze and dismiss handlers, leaves   *)
(* no context, no oscillator and the three refs null, also when no         *)
(* session was held.                                                       *)
C14_OneSoundSession ==
    [][/\ audio'.openContexts <= 1
       /\ audio'.oscillators <= 1
       /\ (lastOp' = "startSound" /\ audio.audioContextRef => audio' = audio)
       /\ (lastOp' \in {"stopSound", "snooze", "dismiss"} => SoundOff(audio'))
       /\ (lastOp' = "stopSound" /\ SoundOff(audio) => audio' = audio)]_vars

\* the sound was started again while the alarm was ringing with its session
C14_Witness ==
    /\ app = "mounted" /\ lastOp = "startSound"
    /\ isRinging /\ SoundOn(audio)

(* C15 (as claimed): when the component is torn down (here with no         *)
(* evaluation pending, so that the teardown is all the step does), no      *)
(* audio context and no oscillator is left running.                        *)
C15_TeardownStopsSound ==
    [][lastOp' = "unmount" /\ pending = "none"
        => audio'.openContexts = 0 /\ audio'.oscillators = 0]_vars

\* the instants at which the local time of day is h:m:00.000
Occurrences(h, m) ==
    { e \in { k * Day + h * 3600000 + m * 60000 - o :
                 k \in 0..(MaxTicks + 3), o \in {0, ZoneShift} } :
        LocalTime(e) % Day = h * 3600000 + m * 60000 }

\* the time from the instant d to the first occurrence of h:m after d
UntilNext(d, h, m) ==
    LET later == { e - d : e \in { x \in Occurrences(h, m) : x > d } }
    IN  CHOOSE t \in later : \A u \in later : t <= u

(* C16 (as claimed): the time-remaining query gives nothing when the alarm *)
(* is disabled; when the alarm is snoozed with snoozeUntil in the future   *)
(* it gives the least number of minutes that covers the time left to       *)
(* snoozeUntil; otherwise it gives the whole hours and minutes of the time *)
(* from the clock sample to the next strictly later occurrence of the      *)
(* configured time of day, which is more than 0 and at most 24 hours.      *)
C16_TimeUntilAlarm ==
    app = "mounted" =>
        LET q == getTimeUntilAlarm(alarm, currentTime, clock)
            left == alarm.snoozeUntil - clock
        IN  IF ~Enabled(alarm) THEN q.kind = "null"
            ELSE IF alarm.snoozed /\ alarm.snoozeUntil # Null /\ left > 0
            THEN /\ q.kind = "snooze"
                 /\ q.minutes * 60000 >= left
                 /\ (q.minutes - 1) * 60000 < left
            ELSE /\ IsClockFace(alarm.time)
                 /\ LET D == UntilNext(currentTime, FaceHour(alarm.time),
                                       FaceMinute(alarm.time))
                    IN  /\ D > 0 /\ D <= Day
                        /\ q.hours = D \div 3600000
                        /\ q.minutes = (D \div 60000) % 60
                        /\ q.kind = IF D >= 3600000 THEN "in h m"
                                    ELSE "in m"

(* C17: in every state, snoozeUntil is non-null exactly when snoozed is    *)
(* true.                                                                   *)
C17_SnoozeUntilIffSnoozed ==
    alarm.snoozed <=> alarm.snoozeUntil # Null

\* a snooze has just expired: both fields were cleared together
C17_Witness ==
    /\ app = "mounted" /\ lastOp = "render" /\ fired = "snooze"
    /\ ~alarm.snoozed /\ alarm.snoozeUntil = Null /\ isRinging

(* C18 (as claimed): in a browser with working audio, in every state of    *)
(* the running page the ringing flag is true exactly when a sound session  *)
(* is held: ringing with one context and one oscillator, not ringing with  *)
(* none.                                                                   *)
C18_RingingIffSound ==
    audioAvailable /\ app = "mounted" =>
        IF isRinging THEN SoundOn(audio) ELSE SoundOff(audio)

(* C18 (amended): in a browser with working audio, in every state of the   *)
(* running page a sound session is held (one context, one oscillator)      *)
(* exactly when the ringing flag is true or an evaluation has set it and   *)
(* the render of that update is still to come; otherwise there is none.    *)
C18_RingingSetIffSound ==
    audioAvailable /\ app = "mounted" =>
        IF isRinging \/ queued.ring # "none" THEN SoundOn(audio)
        ELSE SoundOff(audio)

\* the evaluation of the 07:00:00 tick has started the sound and the page
\* still shows the alarm armed
C18_Witness ==
    /\ app = "mounted" /\ audioAvailable
    /\ lastOp = "effects" /\ fired = "match"
    /\ ~isRinging /\ queued.ring = "match" /\ SoundOn(audio)

(* C19: while the alarm rings, an interval callback, a render, an          *)
(* evaluation, a toggle and a time edit leave the ringing flag true and    *)
(* the sound session as it is; a callback, a render and an evaluation      *)
(* change neither the alarm nor the stored record and fire nothing: only   *)
(* snooze and dismiss clear the flag of the running page.                  *)
C19_OnlySnoozeAndDismissExit ==
    [][/\ (isRinging /\ lastOp' \in {"tick", "render", "effects", "elapse",
                                      "toggle", "setTime", "quickSet"}
           => isRinging' /\ audio' = audio)
       /\ (isRinging /\ lastOp' \in {"tick", "render", "effects"}
           => alarm' = alarm /\ storage' = storage /\ fired' = "none"
              /\ queued'.ring = "none" /\ ~queued'.clear)
       /\ (isRinging /\ ~isRinging' /\ app' = "mounted"
           => lastOp' \in {"snooze", "dismiss"})]_vars

\* the alarm still rings after the ringing alarm was toggled off
C19_Witness ==
    /\ app = "mounted" /\ lastOp = "toggle"
    /\ isRinging /\ ~Enabled(alarm) /\ SoundOn(audio)

(* C20: in no state is the alarm both ringing and snoozed.                 *)
C20_NeverRingingAndSnoozed ==
    ~(isRinging /\ alarm.snoozed)

\* the snooze has just been taken on a ringing alarm
C20_Witness ==
    /\ app = "mounted" /\ lastOp = "snooze"
    /\ alarm.snoozed /\ ~isRinging /\ Enabled(alarm)

====
